---------------------------- MODULE Spec2Model ----------------------------
(***************************************************************************)
(* Model of the MOLNS datastore (src/MolnsLib/molns_datastore/__init__.py):*)
(* the entity tables of the kinds Provider, Controller and WorkerGroup,    *)
(* their key/value side-tables, the Instance table, and the configuration  *)
(* objects callers hold in memory.  The store is the one a Datastore       *)
(* constructed with config_dir (lines 221-225) opens: every table empty.   *)
(*                                                                         *)
(* The engine is always SQLite (lines 218, 224, 229).  The Sequence(...)   *)
(* of every id column is ignored there, and the column is an INTEGER       *)
(* PRIMARY KEY without AUTOINCREMENT: an insert takes the largest id in    *)
(* the table plus one, 1 when the table is empty.                          *)
(***************************************************************************)
EXTENDS Integers, Sequences, FiniteSets, TLC

VARIABLES
    rows,     \* rows[kind]: the entity rows of the table of that kind
    data,     \* data[kind]: the rows of the key/value side-table of that kind
    inst,     \* the rows of the instances table
    objs,     \* the configuration objects callers hold in memory
    ret,      \* the last call: operation, arguments, outcome
    remote,   \* remote[kind]: the rows of the remote_hosts and remote_jobs tables
    docker    \* the containers of the Docker daemon and the call of the wrapper in progress

vars == <<rows, data, inst, objs, ret, remote, docker>>

---------------------------------------------------------------------------
(* Bounds of the model.                                                    *)

MaxId == 2          \* no entity or instance row gets an id above MaxId
MaxDataId == 3      \* no side-table row gets an id above MaxDataId
MaxRows == 2        \* entity rows in the store, over all kinds
MaxData == 2        \* side-table rows in the store, over all kinds
MaxRemote == 3      \* no remote_hosts or remote_jobs row gets an id above MaxRemote

---------------------------------------------------------------------------
(* Schema.                                                                 *)

NULL == 0           \* SQL NULL / Python None in an integer column
Absent == -1        \* the attribute is not in the object's __dict__

VALID_PROVIDER_TYPES == {"OpenStack", "EC2", "Eucalyptus", "Docker"}

HANDLE_MAPPING == {"Provider", "Controller", "WorkerGroup"}

REMOTE_EXECUTION == {"RemoteHost", "RemoteJob"}

Kinds == HANDLE_MAPPING

\* The integer reference columns of each entity table besides id.
Columns(kind) ==
    CASE kind = "Provider"    -> {}
      [] kind = "Controller"  -> {"provider_id"}
      [] kind = "WorkerGroup" -> {"provider_id", "controller_id"}

\* Inputs the callers of the model draw from.
Names == {"x"}
PTypeInputs == {"EC2", "Azure"}
KindInputs == Kinds \cup {"Instance"}
RefIds == {1}
IdInputs == 1..MaxId

EmptyMap == [k \in {} |-> "0"]
Mappings == { EmptyMap,
              ("a" :> "1") @@ ("b" :> "2"),
              ("b" :> "3") @@ ("c" :> "4") }

---------------------------------------------------------------------------
(* Helpers over tables.                                                    *)

Max(S) == CHOOSE m \in S : \A n \in S : n <= m
Min(S) == CHOOSE m \in S : \A n \in S : m <= n

Ids(table) == { r.id : r \in table }

\* SQLite rowid allocation for an INTEGER PRIMARY KEY without AUTOINCREMENT.
NextId(table) == IF table = {} THEN 1 ELSE Max(Ids(table)) + 1

\* query(handle).filter_by(...).first(): the matching row of lowest rowid,
\* <<>> when there is none.
First(matches) ==
    IF matches = {} THEN <<>>
    ELSE << CHOOSE r \in matches : r.id = Min(Ids(matches)) >>

Total(tables) ==
    Cardinality(tables["Provider"]) + Cardinality(tables["Controller"])
        + Cardinality(tables["WorkerGroup"])

ByName(kind, name) == First({ r \in rows[kind] : r.name = name })

\* A lookup by id whose filter is lost: the first row of the table.
ByIdUnfiltered(kind, id) == First(rows[kind])

ById(kind, id) == First({ r \in rows[kind] : r.id = id })

\* Exceptions and results.
DatastoreException(msg) == [exc |-> "DatastoreException", msg |-> msg]
TypeError(msg) == [exc |-> "TypeError", msg |-> msg]
ImportError(msg) == [exc |-> "ImportError", msg |-> msg]
AttributeError(msg) == [exc |-> "AttributeError", msg |-> msg]

Raise(e) == [exc |-> e.exc, msg |-> e.msg, val |-> <<>>]
Return(v) == [exc |-> "None", msg |-> "", val |-> <<v>>]
ReturnNone == [exc |-> "None", msg |-> "", val |-> <<>>]

---------------------------------------------------------------------------
(* Plugin resolver.                                                        *)

\* What each provider module exposes.  The provider modules are not part of
\* the datastore; every valid provider type has a module with one class per
\* kind, named by provider type and kind, and the module remote_execution
\* has the classes RemoteHost and RemoteJob.
ModuleAttrs(pkg_name) ==
    IF pkg_name = "MolnsLib.remote_execution" THEN {"RemoteHost", "RemoteJob"}
    ELSE
    { t \o k : t \in { u \in VALID_PROVIDER_TYPES : pkg_name = "MolnsLib." \o u \o "Provider" },
               k \in {"Provider", "Controller", "WorkerGroup"} }

\* The modules __import__ finds.
Modules ==
    { "MolnsLib." \o t \o "Provider" : t \in VALID_PROVIDER_TYPES }
        \cup {"MolnsLib.remote_execution"}

\* The lookup that answers a missing attribute with no handler instead of
\* an error.
get_module_from_package_lenient(pkg_name, cls_name) ==
    IF pkg_name \notin Modules
    THEN Raise(ImportError("No module named"))
    ELSE IF cls_name \notin ModuleAttrs(pkg_name)
    THEN ReturnNone
    ELSE Return(cls_name)

get_module_from_package(pkg_name, cls_name) ==
    IF pkg_name \notin Modules
    THEN Raise(ImportError("No module named"))
    ELSE IF cls_name \notin ModuleAttrs(pkg_name)
    THEN Raise(DatastoreException("does not contain"))
    ELSE Return(cls_name)

get_provider_handle(kind, ptype) ==
    IF kind \notin {"Provider", "Controller", "WorkerGroup"}
    THEN Raise(DatastoreException("Unknown kind"))
    ELSE IF ptype \notin VALID_PROVIDER_TYPES
    THEN Raise(DatastoreException("Unknown type"))
    ELSE get_module_from_package("MolnsLib." \o ptype \o "Provider", ptype \o kind)

\* The constructor of a provider class: a configuration object carrying the
\* name, the provider type of the class and the given mapping, with no id,
\* no provider_id/controller_id attribute and no back-reference.
p_handle(kind, ptype, name, config) ==
    [ kind |-> kind, name |-> name, type |-> ptype, config |-> config,
      id |-> Absent, provider_id |-> Absent, controller_id |-> Absent,
      provider |-> <<>>, controller |-> <<>> ]

---------------------------------------------------------------------------
(* Hydration.                                                              *)

\* The parameters of get_object_by_id (besides self).
get_object_by_id_params == {"obj_id", "kind"}

\* Python binds a call's keyword arguments to parameters of those names.
Binds(params, keywords) == keywords \subseteq params

\* data[d.name] = d.value over the side-table rows of the parent, in rowid
\* order: of several rows with one name the last one wins.
DataOf(kind, parent_id) ==
    LET p_data == { d \in data[kind] : d.parent_id = parent_id }
        keys   == { d.name : d \in p_data }
        last(k) == CHOOSE d \in p_data :
                      /\ d.name = k
                      /\ \A e \in p_data : e.name = k => e.id <= d.id
    IN  [ k \in keys |-> last(k).value ]

RECURSIVE _get_object_data(_, _)
RECURSIVE get_object_by_id_result(_, _)

\* The call get_object_by_id(id=value, kind=kind) of lines 388 and 395.
call_get_object_by_id(keywords, value, kind) ==
    IF ~Binds(get_object_by_id_params, keywords)
    THEN Raise(TypeError("unexpected keyword argument"))
    ELSE get_object_by_id_result(value, kind)

_get_object_data(kind, p) ==
    LET h == get_provider_handle(kind, p.type) IN
    IF h.exc # "None" THEN h
    ELSE
      LET ret0 == [ p_handle(kind, p.type, p.name, DataOf(kind, p.id)) EXCEPT !.id = p.id ]
          pr == IF "provider_id" \in Columns(kind)
                THEN call_get_object_by_id({"id", "kind"}, p.provider_id, "Provider")
                ELSE ReturnNone
          cr == IF "controller_id" \in Columns(kind)
                THEN call_get_object_by_id({"id", "kind"}, p.controller_id, "Controller")
                ELSE ReturnNone
      IN  IF pr.exc \notin {"None", "DatastoreException"} THEN pr
          ELSE IF cr.exc \notin {"None", "DatastoreException"} THEN cr
          ELSE Return([ ret0 EXCEPT !.provider = pr.val, !.controller = cr.val ])

__get_molns_object_by_id(obj_id, kind) ==
    LET p == ById(kind, obj_id) IN
    IF p = <<>> THEN Raise(DatastoreException("not found"))
    ELSE _get_object_data(kind, p[1])

\* The mapped attributes of the classes RemoteJob and RemoteHost: what the
\* constructor of a declarative class accepts as keywords.
RemoteColumns(kind) ==
    IF kind = "RemoteJob"
    THEN {"id", "input_file", "remote_host_id", "date", "remote_job_id"}
    ELSE {"id", "ip_address", "username", "secret_key_file", "port", "remote_host_id"}

\* handle(**kwargs): a new row object of the class with the given attributes;
\* the declarative constructor raises TypeError for a keyword that is no
\* attribute of the class.
NewRow(kind, kwargs) ==
    IF ~Binds(RemoteColumns(kind), DOMAIN kwargs)
    THEN Raise(TypeError("is an invalid keyword argument"))
    ELSE Return(kwargs)

\* session.query(handle).filter_by(id=obj_id).first() on a remote table.
RemoteById(kind, obj_id) == First({ r \in remote[kind] : r.id = obj_id })

get_remote_execution_handle(kind) ==
    IF kind \notin {"RemoteHost", "RemoteJob"}
    THEN Raise(DatastoreException("Unknown kind"))
    ELSE get_module_from_package("MolnsLib.remote_execution", kind)

\* The constructor of the class RemoteHost of module remote_execution: a
\* host object carrying the connection data of the row and the host's id.
r_handle(p) == [ kind |-> "RemoteHost", id |-> p.remote_host_id, ip_address |-> p.ip_address ]

\* kind is a string and RemoteJob a class, so "kind is RemoteJob" is false
\* and every row is handed to the constructor with the attributes of a host:
\* a job row has none of them.
__get_remote_execution_object_by_id(obj_id, kind) ==
    LET p == RemoteById(kind, obj_id)
        h == get_remote_execution_handle(kind)
    IN  IF p = <<>> THEN Raise(DatastoreException("not found"))
        ELSE IF h.exc # "None" THEN h
        ELSE IF ~Binds(DOMAIN p[1], {"ip_address", "remote_host_id"})
        THEN Raise(AttributeError("object has no attribute 'ip_address'"))
        ELSE Return(r_handle(p[1]))

get_object_by_id_result(obj_id, kind) ==
    IF kind \notin HANDLE_MAPPING /\ kind \notin REMOTE_EXECUTION
    THEN Raise(DatastoreException("Unknown kind"))
    ELSE IF kind \in HANDLE_MAPPING
    THEN __get_molns_object_by_id(obj_id, kind)
    ELSE __get_remote_execution_object_by_id(obj_id, kind)

get_object_result(name, kind) ==
    IF kind \notin HANDLE_MAPPING
    THEN Raise(DatastoreException("Unknown kind"))
    ELSE LET p == ByName(kind, name) IN
         IF p = <<>> THEN Raise(DatastoreException("not found"))
         ELSE _get_object_data(kind, p[1])

---------------------------------------------------------------------------
(* The state after construction, and bookkeeping of a call.                *)

\* The callers of the datastore; each holds at most one configuration object.
Callers == {"A", "B"}

NoCall ==
    [ op |-> "init", exc |-> "None", msg |-> "", val |-> <<>>, obj |-> <<>>,
      chain |-> <<>> ]

\* The containers the daemon may hold.  A container is absent (never created,
\* or removed), running or exited; its IPAddress is a string, here the
\* sequence of its characters, empty while it has none.
Containers == {"c1", "c2"}
NoAddress == <<>>

\* No container, and no call of the wrapper in progress.
NoDocker ==
    [ state |-> [c \in Containers |-> "absent"],
      ip    |-> [c \in Containers |-> NoAddress],
      pc    |-> "idle",
      cid   |-> "",
      ins   |-> NoAddress,
      calls |-> <<>> ]

Init ==
    /\ rows = [k \in Kinds |-> {}]
    /\ data = [k \in Kinds |-> {}]
    /\ inst = {}
    /\ objs = [c \in Callers |-> <<>>]
    /\ ret = NoCall
    /\ remote = [k \in REMOTE_EXECUTION |-> {}]
    /\ docker = NoDocker

\* The kind and name of the object the last call returned or saved, <<>> when
\* it raised, was no such call or was about a remote host or job.
LastSubject ==
    IF ret.exc # "None" THEN <<>>
    ELSE IF ret.op \in {"create_object", "get_object", "get_object_by_id"}
    THEN IF ret.val[1].kind \in REMOTE_EXECUTION THEN <<>>
         ELSE << ret.val[1].kind, ret.val[1].name >>
    ELSE IF ret.op = "save_object"
    THEN IF ret.obj[1].kind \in REMOTE_EXECUTION THEN <<>>
         ELSE << ret.obj[1].kind, ret.obj[1].name >>
    ELSE <<>>

LastTwo(s) == IF Len(s) <= 2 THEN s ELSE SubSeq(s, Len(s) - 1, Len(s))

\* The last call was op, with the argument obj (<<>> when it takes none),
\* and ended as res.  chain, kept for a save and a get_object: the (at most
\* two) calls right before it that returned or saved the object of that kind
\* and name, for a save the very object saved; oldest first.
Called(op, subj, obj, res) ==
    ret' = [ op |-> op, exc |-> res.exc, msg |-> res.msg, val |-> res.val,
             obj |-> obj,
             chain |-> IF /\ op \in {"save_object", "get_object"}
                          /\ LastSubject = subj
                          /\ op = "save_object" => (ret.val = obj \/ ret.obj = obj)
                       THEN LastTwo(Append(ret.chain, ret.op))
                       ELSE <<>> ]

\* Caller c keeps the object a call returned in place of the one it held; a
\* call that raised leaves it what it held.
Keep(c, res) ==
    objs' = IF res.val = <<>> THEN objs ELSE [objs EXCEPT ![c] = res.val]

---------------------------------------------------------------------------
(* create_object, get_object, get_object_by_id.                            *)

KwargsFor(kind) ==
    { [ provider_id |-> pid, controller_id |-> cid ] :
        pid \in (IF kind \in Kinds /\ "provider_id" \in Columns(kind) THEN RefIds ELSE {})
                   \cup {Absent},
        cid \in (IF kind \in Kinds /\ "controller_id" \in Columns(kind) THEN RefIds ELSE {})
                   \cup {Absent} }

\* create without the lookup of lines 259-264.
create_object_result_unchecked(ptype, name, kind, kwargs) ==
    IF kind \notin HANDLE_MAPPING
    THEN Raise(DatastoreException("Unknown kind"))
    ELSE LET h == get_provider_handle(kind, ptype) IN
         IF h.exc # "None" THEN h
         ELSE Return([ p_handle(kind, ptype, name, EmptyMap) EXCEPT
                         !.provider_id = kwargs.provider_id,
                         !.controller_id = kwargs.controller_id ])

create_object_result(ptype, name, kind, kwargs) ==
    IF kind \notin HANDLE_MAPPING
    THEN Raise(DatastoreException("Unknown kind"))
    ELSE IF ByName(kind, name) # <<>>
    THEN Raise(DatastoreException("already exists"))
    ELSE LET h == get_provider_handle(kind, ptype) IN
         IF h.exc # "None" THEN h
         ELSE Return([ p_handle(kind, ptype, name, EmptyMap) EXCEPT
                         !.provider_id = kwargs.provider_id,
                         !.controller_id = kwargs.controller_id ])

create_object(c, ptype, name, kind, kwargs) ==
    LET res == create_object_result(ptype, name, kind, kwargs) IN
    /\ UNCHANGED <<rows, data, inst, remote, docker>>
    /\ Keep(c, res)
    /\ Called("create_object", <<kind, name>>, <<>>, res)

get_object(c, name, kind) ==
    LET res == get_object_result(name, kind) IN
    /\ UNCHANGED <<rows, data, inst, remote, docker>>
    /\ Keep(c, res)
    /\ Called("get_object", <<kind, name>>, <<>>, res)

get_object_by_id(c, obj_id, kind) ==
    LET res == get_object_by_id_result(obj_id, kind) IN
    /\ UNCHANGED <<rows, data, inst, remote, docker>>
    /\ Keep(c, res)
    /\ Called("get_object_by_id", <<>>, <<>>, res)

\* Caller c attaches the extension mapping M to the object it holds.
set_config(c, M) ==
    /\ objs[c] # <<>>
    /\ objs[c][1].config # M
    /\ objs' = [objs EXCEPT ![c] = << [ @[1] EXCEPT !.config = M ] >>]
    /\ ret' = [NoCall EXCEPT !.op = "set_config"]
    /\ UNCHANGED <<rows, data, inst, remote, docker>>

---------------------------------------------------------------------------
(* delete_object, delete_object_by_id.                                     *)

\* A delete that takes the extension rows of the entity with it.
DeleteRowCascading(kind, p) ==
    /\ rows' = [rows EXCEPT ![kind] = @ \ {p}]
    /\ data' = [data EXCEPT ![kind] = { d \in @ : d.parent_id # p.id }]

\* session.delete(p); session.commit(): the entity row goes, nothing else.
DeleteRow(kind, p) ==
    /\ rows' = [rows EXCEPT ![kind] = @ \ {p}]
    /\ UNCHANGED data

delete_object(name, kind) ==
    LET p == IF kind \in HANDLE_MAPPING THEN ByName(kind, name) ELSE <<>>
        res == IF kind \notin HANDLE_MAPPING THEN Raise(DatastoreException("Unknown kind"))
               ELSE IF p = <<>> THEN Raise(DatastoreException("not found"))
               ELSE ReturnNone
    IN  /\ Called("delete_object", <<kind, name>>, <<>>, res)
        /\ IF res.exc = "None" THEN DeleteRow(kind, p[1]) ELSE UNCHANGED <<rows, data>>
        /\ UNCHANGED <<inst, objs, remote, docker>>

delete_object_by_id(obj_id, kind) ==
    LET p == IF kind \in HANDLE_MAPPING THEN ById(kind, obj_id)
             ELSE IF kind \in REMOTE_EXECUTION THEN RemoteById(kind, obj_id)
             ELSE <<>>
        res == IF kind \notin HANDLE_MAPPING /\ kind \notin REMOTE_EXECUTION
               THEN Raise(DatastoreException("Unknown kind"))
               ELSE IF p = <<>> THEN Raise(DatastoreException("not found"))
               ELSE ReturnNone
    IN  /\ Called("delete_object_by_id", <<>>, <<>>, res)
        /\ IF res.exc = "None" /\ kind \in HANDLE_MAPPING
           THEN DeleteRow(kind, p[1])
           ELSE UNCHANGED <<rows, data>>
        /\ IF res.exc = "None" /\ kind \in REMOTE_EXECUTION
           THEN remote' = [remote EXCEPT ![kind] = @ \ {p[1]}]
           ELSE UNCHANGED remote
        /\ UNCHANGED <<inst, objs, docker>>

---------------------------------------------------------------------------
(* save_object.                                                            *)

Perms(S) ==
    { f \in [1..Cardinality(S) -> S] :
        \A i, j \in 1..Cardinality(S) : f[i] = f[j] => i = j }

\* A save that never looks the name up: always a new row.
UpsertRowAlwaysNew(config, kind) ==
    [ id |-> NextId(rows[kind]), name |-> config.name, type |-> config.type,
      provider_id |-> NULL, controller_id |-> NULL ]

\* A new row that is given no type.
UpsertRowNoType(config, kind) ==
    LET p == ByName(kind, config.name) IN
    IF p # <<>> THEN p[1]
    ELSE [ id |-> NextId(rows[kind]), name |-> config.name, type |-> "",
           provider_id |-> NULL, controller_id |-> NULL ]

\* The entity row of lines 403-407: the row of that name, or a new one.
UpsertRow(config, kind) ==
    LET p == ByName(kind, config.name) IN
    IF p # <<>> THEN p[1]
    ELSE [ id |-> NextId(rows[kind]), name |-> config.name, type |-> config.type,
           provider_id |-> NULL, controller_id |-> NULL ]

\* The references of config never reach the row.
WithRefsDropped(config, kind, p) == p

\* Lines 410-416: the references config carries go into the columns the
\* table has; an attribute the table has no column for is not persisted.
WithRefs(config, kind, p) ==
    [ p EXCEPT
        !.provider_id   = IF "provider_id" \in Columns(kind) /\ config.provider_id # Absent
                          THEN config.provider_id ELSE @,
        !.controller_id = IF "controller_id" \in Columns(kind) /\ config.controller_id # Absent
                          THEN config.controller_id ELSE @ ]

\* The diff with the two branches of line 423 taken the wrong way round: a
\* row whose key is in the mapping is deleted like one whose key is not.
DiffDataDropsMatched(table, parent_id, config, ord) ==
    LET p_data == { d \in table : d.parent_id = parent_id }
        base == IF table = {} THEN 0 ELSE Max(Ids(table))
        inserted == { [ id |-> base + i, parent_id |-> parent_id,
                        name |-> ord[i], value |-> config[ord[i]] ] : i \in DOMAIN ord }
    IN  (table \ p_data) \cup inserted

\* Lines 420-432, the side-table after the diff: of the parent's rows, in
\* rowid order, the first one of each key of the mapping takes the mapping's
\* value and every other one is deleted; the keys left get new rows, in the
\* order ord of the mapping's keys.  The flush inserts before it deletes.
DiffData(table, parent_id, config, ord) ==
    LET p_data == { d \in table : d.parent_id = parent_id }
        first(k) == CHOOSE d \in p_data :
                       /\ d.name = k
                       /\ \A e \in p_data : e.name = k => d.id <= e.id
        updated == { [d EXCEPT !.value = config[d.name]] :
                        d \in { e \in p_data : e.name \in DOMAIN config /\ e = first(e.name) } }
        base == IF table = {} THEN 0 ELSE Max(Ids(table))
        inserted == { [ id |-> base + i, parent_id |-> parent_id,
                        name |-> ord[i], value |-> config[ord[i]] ] : i \in DOMAIN ord }
    IN  (table \ p_data) \cup updated \cup inserted

\* Line 425 (del data[d.name]) lost: every key of the mapping gets a new row.
NewKeysAll(table, parent_id, config) == DOMAIN config

NewKeys(table, parent_id, config) ==
    DOMAIN config \ { d.name : d \in { e \in table : e.parent_id = parent_id } }

__save_molns_object(config, kind) ==
    LET p == WithRefs(config, kind, UpsertRow(config, kind))
    IN  /\ p.id <= MaxId
        /\ rows' = [rows EXCEPT ![kind] = (@ \ { r \in @ : r.id = p.id }) \cup {p}]
        /\ \E ord \in Perms(NewKeys(data[kind], p.id, config.config)) :
              /\ data' = [data EXCEPT ![kind] = DiffData(@, p.id, config.config, ord)]
              /\ \A d \in data'[kind] : d.id <= MaxDataId
              /\ Total(data') <= MaxData
        /\ Total(rows') <= MaxRows
        /\ Called("save_object", <<kind, config.name>>, <<config>>, ReturnNone)

\* The rows a RemoteJob save adds once the job row is built: the job row,
\* and a copy of the host when get_object_by_id(config.remote_host.id,
\* 'RemoteHost') raises DatastoreException.  The lookup is by the row id of
\* the hosts table, the copy stores the host's own id in remote_host_id.
\* Any other exception of the lookup leaves the call before the commit.
AddRemoteJob(config, job) ==
    LET look == get_object_by_id_result(config.remote_host.id, "RemoteHost")
        jobs == remote["RemoteJob"] \cup { job @@ [id |-> NextId(remote["RemoteJob"])] }
        copy == [ id |-> NextId(remote["RemoteHost"]),
                  ip_address |-> config.remote_host.ip_address,
                  remote_host_id |-> config.remote_host.id ]
    IN  IF look.exc = "None"
        THEN [ res |-> Return([id |-> NextId(remote["RemoteJob"])]),
               tables |-> [remote EXCEPT !["RemoteJob"] = jobs] ]
        ELSE IF look.exc = "DatastoreException"
        THEN [ res |-> Return([id |-> NextId(remote["RemoteJob"])]),
               tables |-> [remote EXCEPT !["RemoteJob"] = jobs,
                                         !["RemoteHost"] = @ \cup {copy}] ]
        ELSE [ res |-> look, tables |-> remote ]

\* The outcome of __save_remote_execution_object and the remote tables after
\* it.  The job row is built with the keyword controller_id, read from
\* config.controller_id.
save_remote_execution_object_result(config, kind) ==
    IF kind = "RemoteJob"
    THEN IF config.controller_id = Absent
         THEN [ res |-> Raise(AttributeError("object has no attribute 'controller_id'")),
                tables |-> remote ]
         ELSE LET job == NewRow("RemoteJob",
                                [ input_file |-> config.input_file,
                                  remote_host_id |-> config.remote_host.id,
                                  controller_id |-> config.controller_id,
                                  date |-> config.date,
                                  remote_job_id |-> config.id ])
              IN  IF job.exc # "None"
                  THEN [ res |-> job, tables |-> remote ]
                  ELSE AddRemoteJob(config, job.val[1])
    ELSE LET host == NewRow("RemoteHost",
                            [ ip_address |-> config.ip_address,
                              remote_host_id |-> config.id ])
         IN  IF host.exc # "None"
             THEN [ res |-> host, tables |-> remote ]
             ELSE [ res |-> Return([id |-> NextId(remote["RemoteHost"])]),
                    tables |-> [remote EXCEPT !["RemoteHost"] =
                                   @ \cup { host.val[1] @@ [id |-> NextId(remote["RemoteHost"])] }] ]

__save_remote_execution_object(config, kind) ==
    LET out == save_remote_execution_object_result(config, kind)
    IN  /\ remote' = out.tables
        /\ \A k \in REMOTE_EXECUTION : \A r \in remote'[k] : r.id <= MaxRemote
        /\ Called("save_object", <<>>, <<config>>, out.res)

save_object(config, kind) ==
    /\ IF kind \in HANDLE_MAPPING
       THEN __save_molns_object(config, kind) /\ UNCHANGED remote
       ELSE IF kind \in REMOTE_EXECUTION
       THEN __save_remote_execution_object(config, kind) /\ UNCHANGED <<rows, data>>
       ELSE /\ Called("save_object", <<kind, config.name>>, <<config>>,
                      Raise(DatastoreException("Unknown kind")))
            /\ UNCHANGED <<rows, data, remote>>
    /\ UNCHANGED <<inst, objs, docker>>

---------------------------------------------------------------------------
(* Instances.                                                              *)

InstanceIds == {"i-1", "i-2"}
IpAddresses == {"10.0.0.1", "10.0.0.2"}
InstRefs == {NULL, 1}

ByIdentifier(provider_instance_identifier) ==
    First({ r \in inst : r.provider_instance_identifier = provider_instance_identifier })

\* get_instance that writes the arguments of the call into the stored row.
get_instance_overwriting(provider_instance_identifier, ip_address, provider_id, controller_id, worker_group_id) ==
    LET p == ByIdentifier(provider_instance_identifier)
        args == [ id |-> NULL, type |-> "",
                  controller_id |-> controller_id, worker_group_id |-> worker_group_id,
                  provider_id |-> provider_id, ip_address |-> ip_address,
                  provider_instance_identifier |-> provider_instance_identifier ]
        new == [ args EXCEPT !.id = IF p = <<>> THEN NextId(inst) ELSE p[1].id ]
    IN  /\ new.id <= MaxId
        /\ inst' = (inst \ { r \in inst : r.id = new.id }) \cup {new}
        /\ Called("get_instance", <<>>, <<args>>, Return(new))
        /\ UNCHANGED <<rows, data, objs, remote, docker>>

get_instance(provider_instance_identifier, ip_address, provider_id, controller_id, worker_group_id) ==
    LET p == ByIdentifier(provider_instance_identifier)
        args == [ id |-> NULL, type |-> "",
                  controller_id |-> controller_id, worker_group_id |-> worker_group_id,
                  provider_id |-> provider_id, ip_address |-> ip_address,
                  provider_instance_identifier |-> provider_instance_identifier ]
        new == [ args EXCEPT !.id = NextId(inst) ]
    IN  /\ IF p = <<>>
           THEN /\ new.id <= MaxId
                /\ inst' = inst \cup {new}
                /\ Called("get_instance", <<>>, <<args>>, Return(new))
           ELSE /\ UNCHANGED inst
                /\ Called("get_instance", <<>>, <<args>>, Return(p[1]))
        /\ UNCHANGED <<rows, data, objs, remote, docker>>

\* filter_by(controller_id=..., worker_group_id=None) of line 499 with its
\* worker_group_id filter lost.
ControllerInstancesUnfiltered(controller_id) ==
    { r \in inst : r.controller_id = controller_id }

\* filter_by(column=None) is "column IS NULL", filter_by(column=v) is
\* "column = v", which no row with a NULL column satisfies; the list .all()
\* returns is taken as the set of its rows.
ControllerInstances(controller_id) ==
    { r \in inst : r.controller_id = controller_id /\ r.worker_group_id = NULL }

\* filter(Instance.worker_group_id != None) is "worker_group_id IS NOT NULL".
WorkerInstances(controller_id) ==
    { r \in inst : r.controller_id = controller_id /\ r.worker_group_id # NULL }

get_controller_instances(controller_id) ==
    /\ Called("get_controller_instances", <<>>, <<[controller_id |-> controller_id]>>,
              Return([all |-> ControllerInstances(controller_id)]))
    /\ UNCHANGED <<rows, data, inst, objs, remote, docker>>

get_worker_instances(controller_id) ==
    /\ Called("get_worker_instances", <<>>, <<[controller_id |-> controller_id]>>,
              Return([all |-> WorkerInstances(controller_id)]))
    /\ UNCHANGED <<rows, data, inst, objs, remote, docker>>

\* The resolver called on its own; the class it returns is shown by name.
Handle(res) == IF res.val = <<>> THEN res ELSE Return([handle |-> res.val[1]])

resolve_provider_handle(kind, ptype) ==
    /\ Called("get_provider_handle", <<>>, <<[kind |-> kind, ptype |-> ptype]>>,
              Handle(get_provider_handle(kind, ptype)))
    /\ UNCHANGED <<rows, data, inst, objs, remote, docker>>

resolve_module_attr(pkg_name, cls_name) ==
    /\ Called("get_module_from_package", <<>>,
              <<[pkg_name |-> pkg_name, cls_name |-> cls_name]>>,
              Handle(get_module_from_package(pkg_name, cls_name)))
    /\ UNCHANGED <<rows, data, inst, objs, remote, docker>>

delete_instance(instance) ==
    /\ inst' = inst \ {instance}
    /\ Called("delete_instance", <<>>, <<instance>>, ReturnNone)
    /\ UNCHANGED <<rows, data, objs, remote, docker>>

---------------------------------------------------------------------------
(* The Docker wrapper.                                                     *)

\* str.startswith for a one-character prefix.
StartsWith(s, c) == Len(s) > 0 /\ s[1] = c

\* The addresses the daemon hands to a running container.
Addresses == { <<"1", "7", "2">>, <<"2", "0", "3">> }

\* The lists of container ids terminate_containers is called with.
MaxList == 2
IdLists == UNION { [1..n -> Containers] : n \in 0..MaxList }

NotFound == [exc |-> "NotFound", msg |-> "No such container"]
APIError == [exc |-> "APIError", msg |-> "conflict"]

STATUS_RUNNING == "running"
STATUS_STOPPED == "stopped"
STATUS_TERMINATED == "terminated"

\* container_status on the daemon d: terminated when inspect_container raises
\* NotFound, running when the Status it reports starts with "running",
\* stopped otherwise.
container_status(d, container_id) ==
    IF d.state[container_id] = "absent" THEN STATUS_TERMINATED
    ELSE IF d.state[container_id] = "running" THEN STATUS_RUNNING
    ELSE STATUS_STOPPED

\* client.stop: the container exits and gives its address back; NotFound
\* for a container the daemon does not have.
client_stop(d, container_id) ==
    LET call == [ call |-> "stop", id |-> container_id,
                  raised |-> IF d.state[container_id] = "absent" THEN "NotFound" ELSE "None" ]
    IN  IF d.state[container_id] = "absent"
        THEN [ d EXCEPT !.calls = Append(@, call), !.exc = "NotFound" ]
        ELSE [ d EXCEPT !.calls = Append(@, call),
                        !.state[container_id] = "exited",
                        !.ip[container_id] = NoAddress ]

\* client.remove_container: NotFound for a container the daemon does not
\* have, a conflict for a running one, else the container is gone.
client_remove_container(d, container_id) ==
    LET raised == IF d.state[container_id] = "absent" THEN "NotFound"
                  ELSE IF d.state[container_id] = "running" THEN "APIError"
                  ELSE "None"
        call == [ call |-> "remove", id |-> container_id, raised |-> raised ]
    IN  IF raised # "None"
        THEN [ d EXCEPT !.calls = Append(@, call), !.exc = raised ]
        ELSE [ d EXCEPT !.calls = Append(@, call), !.state[container_id] = "absent" ]

\* The body of the loop of terminate_containers without its except clause:
\* NotFound leaves the loop like any other exception.
TerminateOneUncaught(d, container_id) ==
    LET d1 == IF container_status(d, container_id) = STATUS_RUNNING
              THEN client_stop(d, container_id)
              ELSE d
    IN  IF d1.exc # "None" THEN d1 ELSE client_remove_container(d1, container_id)

\* The body of the loop of terminate_containers: stop if the status is
\* running, then remove; NotFound of either is caught and passed over.
TerminateOne(d, container_id) ==
    LET d1 == IF container_status(d, container_id) = STATUS_RUNNING
              THEN client_stop(d, container_id)
              ELSE d
        d2 == IF d1.exc # "None" THEN d1 ELSE client_remove_container(d1, container_id)
    IN  IF d2.exc = "NotFound" THEN [ d2 EXCEPT !.exc = "None" ] ELSE d2

RECURSIVE TerminateAll(_, _)

\* for container_id in container_ids: an exception that is not caught ends
\* the loop.
TerminateAll(d, container_ids) ==
    IF container_ids = <<>> THEN d
    ELSE LET d1 == TerminateOne(d, Head(container_ids))
         IN  IF d1.exc # "None" THEN d1 ELSE TerminateAll(d1, Tail(container_ids))

\* No call of the wrapper is in progress.
Idle == docker.pc = "idle"

terminate_containers(container_ids) ==
    LET d == TerminateAll([ state |-> docker.state, ip |-> docker.ip,
                            calls |-> <<>>, exc |-> "None" ], container_ids)
    IN  /\ Idle
        /\ docker' = [ docker EXCEPT !.state = d.state, !.ip = d.ip, !.calls = d.calls ]
        /\ Called("terminate_containers", <<>>, <<[container_ids |-> container_ids]>>,
                  IF d.exc = "None" THEN ReturnNone ELSE Raise([exc |-> d.exc, msg |-> ""]))
        /\ UNCHANGED <<rows, data, inst, objs, remote>>

\* create_container: the daemon has a new container, not yet started.
create_container(container_id) ==
    /\ Idle
    /\ docker.state[container_id] = "absent"
    /\ docker' = [ docker EXCEPT !.state[container_id] = "created" ]
    /\ Called("create_container", <<>>, <<[container_id |-> container_id]>>,
              Return([Id |-> container_id]))
    /\ UNCHANGED <<rows, data, inst, objs, remote>>

\* start_container: client.start; NotFound is logged and answered with False.
start_container(container_id) ==
    /\ Idle
    /\ docker' = IF docker.state[container_id] = "absent" THEN docker
                 ELSE [ docker EXCEPT !.state[container_id] = "running" ]
    /\ Called("start_container", <<>>, <<[container_id |-> container_id]>>,
              Return([started |-> docker.state[container_id] # "absent"]))
    /\ UNCHANGED <<rows, data, inst, objs, remote>>

\* stop_container: client.stop, whatever it raises.
stop_container(container_id) ==
    LET d == client_stop([ state |-> docker.state, ip |-> docker.ip,
                           calls |-> <<>>, exc |-> "None" ], container_id)
    IN  /\ Idle
        /\ docker' = [ docker EXCEPT !.state = d.state, !.ip = d.ip ]
        /\ Called("stop_container", <<>>, <<[container_id |-> container_id]>>,
                  IF d.exc = "None" THEN ReturnNone ELSE Raise(NotFound))
        /\ UNCHANGED <<rows, data, inst, objs, remote>>

\* The daemon gives a running container that has no address an address.
assign_address(container_id, address) ==
    /\ docker.state[container_id] = "running"
    /\ docker.ip[container_id] = NoAddress
    /\ docker' = [ docker EXCEPT !.ip[container_id] = address ]
    /\ UNCHANGED <<rows, data, inst, objs, ret, remote>>

\* get_container_ip_address up to the loop: start_container (NotFound is
\* logged and ignored), then ins = client.inspect_container(container_id),
\* which raises NotFound for a container the daemon does not have.  ins is
\* the answer of that one inspection.
get_container_ip_address(container_id) ==
    /\ Idle
    /\ IF docker.state[container_id] = "absent"
       THEN /\ Called("get_container_ip_address", <<>>, <<[container_id |-> container_id]>>,
                      Raise(NotFound))
            /\ UNCHANGED docker
       ELSE /\ docker' = [ docker EXCEPT !.state[container_id] = "running",
                                         !.pc = "loop",
                                         !.cid = container_id,
                                         !.ins = docker.ip[container_id] ]
            /\ ret' = [ NoCall EXCEPT !.op = "get_container_ip_address",
                                      !.obj = <<[container_id |-> container_id]>> ]
    /\ UNCHANGED <<rows, data, inst, objs, remote>>

\* One round of the loop: ip_address is read from ins; the call sleeps when
\* it is empty, returns it when it starts with "1", and goes round again
\* otherwise.
poll ==
    /\ docker.pc = "loop"
    /\ IF docker.ins = NoAddress
       THEN /\ docker' = [ docker EXCEPT !.pc = "sleep" ]
            /\ UNCHANGED ret
       ELSE IF StartsWith(docker.ins, "1")
       THEN /\ docker' = [ docker EXCEPT !.pc = "idle" ]
            /\ Called("get_container_ip_address", <<>>, <<[container_id |-> docker.cid]>>,
                      Return([ip_address |-> docker.ins]))
       ELSE UNCHANGED <<docker, ret>>
    /\ UNCHANGED <<rows, data, inst, objs, remote>>

\* time.sleep(3) is over; the test of line 174 fails for the empty address
\* and the loop goes round.
wake ==
    /\ docker.pc = "sleep"
    /\ docker' = [ docker EXCEPT !.pc = "loop" ]
    /\ UNCHANGED <<rows, data, inst, objs, ret, remote>>

---------------------------------------------------------------------------
(* Specifications.                                                         *)

\* The calls callers cs make with names, provider types and mappings drawn
\* from the given sets.
Calls(cs, names, ptypes, mappings) ==
    \/ \E c \in cs, t \in ptypes, n \in names, k \in KindInputs :
          \E kw \in KwargsFor(k) : create_object(c, t, n, k, kw)
    \/ \E c \in cs, n \in names, k \in KindInputs : get_object(c, n, k)
    \/ \E c \in cs, i \in IdInputs, k \in KindInputs : get_object_by_id(c, i, k)
    \/ \E c \in cs, M \in mappings : set_config(c, M)
    \/ \E c \in cs, k \in KindInputs :
          /\ objs[c] # <<>>
          /\ k = objs[c][1].kind \/ k \notin Kinds
          /\ save_object(objs[c][1], k)
    \/ \E n \in names, k \in KindInputs : delete_object(n, k)
    \/ \E i \in IdInputs, k \in KindInputs : delete_object_by_id(i, k)

Next == Calls({"A"}, Names, PTypeInputs, Mappings)

\* Two callers working on one name with two provider types and no extension
\* mapping; a created object carries all the references of its kind or none.
AllOrNone(kind) ==
    { kw \in KwargsFor(kind) :
        \A col \in Columns(kind) : (kw[col] = Absent) = (kw.provider_id = Absent) }

NextUpsert ==
    \/ \E c \in Callers, t \in {"EC2", "Docker"}, k \in Kinds :
          \E kw \in AllOrNone(k) : create_object(c, t, "x", k, kw)
    \/ \E c \in Callers : objs[c] # <<>> /\ save_object(objs[c][1], objs[c][1].kind)
    \/ \E k \in Kinds : delete_object("x", k)

SpecUpsert == Init /\ [][NextUpsert]_vars

Spec == Init /\ [][Next]_vars

NextInstance ==
    \/ \E i \in InstanceIds, ip \in IpAddresses, p \in InstRefs, c \in InstRefs, w \in InstRefs :
          get_instance(i, ip, p, c, w)
    \/ \E r \in inst : delete_instance(r)

SpecInstance == Init /\ [][NextInstance]_vars

NoRefs == [ provider_id |-> Absent, controller_id |-> Absent ]

\* The resolver and create, called with kinds, provider types, packages and
\* class names of which some are valid and some are not.
PackageInputs == {"MolnsLib.EC2Provider", "MolnsLib.DockerProvider"}
ClassInputs == {"EC2Provider", "EC2Controller", "DockerWorkerGroup", "EC2Instance"}
ResolveTypes == {"EC2", "Docker", "Azure", "ec2"}

NextResolve ==
    \/ \E k \in KindInputs, t \in ResolveTypes : resolve_provider_handle(k, t)
    \/ \E pkg \in PackageInputs, cls \in ClassInputs : resolve_module_attr(pkg, cls)
    \/ \E c \in Callers, t \in ResolveTypes, k \in KindInputs :
          create_object(c, t, "x", k, NoRefs)

SpecResolve == Init /\ [][NextResolve]_vars

\* One caller saving mappings of at most one key over one another, and
\* deleting what it saved.
OneKeyMappings == { EmptyMap, "a" :> "1", "a" :> "2", "b" :> "3" }

NextData ==
    \/ \E k \in Kinds : create_object("A", "EC2", "x", k, NoRefs)
    \/ \E M \in OneKeyMappings : set_config("A", M)
    \/ objs["A"] # <<>> /\ save_object(objs["A"][1], objs["A"][1].kind)
    \/ \E k \in Kinds : delete_object("x", k)

SpecData == Init /\ [][NextData]_vars

\* Instances come and go and are listed by controller.
NextListing ==
    \/ \E i \in InstanceIds, p \in InstRefs, c \in InstRefs, w \in InstRefs :
          get_instance(i, "10.0.0.1", p, c, w)
    \/ \E r \in inst : delete_instance(r)
    \/ \E c \in InstRefs : get_controller_instances(c)
    \/ \E c \in InstRefs : get_worker_instances(c)

SpecListing == Init /\ [][NextListing]_vars

\* The hosts and jobs callers save.  The classes of module remote_execution
\* are not part of the datastore: a host carries its own id and its
\* connection data (of which the model keeps the address), a job its id,
\* input file, date and host, and a controller_id or none.
RemoteHostIds == {1, 7}
HostConfigs == { [ kind |-> "RemoteHost", id |-> h, ip_address |-> "10.0.0.9" ] : h \in RemoteHostIds }
JobConfigs == { [ kind |-> "RemoteJob", id |-> "job1", input_file |-> "in", date |-> "d", controller_id |-> c, remote_host |-> h ] : c \in {Absent, 1}, h \in HostConfigs }

\* Remote hosts and jobs are saved, looked up and deleted by id.
NextRemote ==
    \/ \E h \in HostConfigs : save_object(h, "RemoteHost")
    \/ \E j \in JobConfigs : save_object(j, "RemoteJob")
    \/ \E c \in Callers, i \in 1..MaxRemote, k \in REMOTE_EXECUTION : get_object_by_id(c, i, k)
    \/ \E i \in 1..MaxRemote, k \in REMOTE_EXECUTION : delete_object_by_id(i, k)

SpecRemote == Init /\ [][NextRemote]_vars

\* The wrapper's calls and the daemon.  A call of get_container_ip_address
\* that is in its loop keeps running: its rounds and its sleeps end.
NextDocker ==
    \/ \E c \in Containers : create_container(c)
    \/ \E c \in Containers : start_container(c)
    \/ \E c \in Containers : stop_container(c)
    \/ \E c \in Containers, a \in Addresses : assign_address(c, a)
    \/ \E l \in IdLists : terminate_containers(l)
    \/ \E c \in Containers : get_container_ip_address(c)
    \/ poll
    \/ wake

SpecDocker == Init /\ [][NextDocker]_vars /\ WF_vars(poll) /\ WF_vars(wake)

---------------------------------------------------------------------------
(* Properties.                                                             *)

ParentRows(table, parent_id) == { d \in table : d.parent_id = parent_id }

\* The side-table rows of the entity of that kind and name are exactly the
\* mapping M, one row per key.
Persisted(kind, name, M) ==
    /\ ByName(kind, name) # <<>>
    /\ LET pd == ParentRows(data[kind], ByName(kind, name)[1].id)
       IN  /\ Cardinality(pd) = Cardinality(DOMAIN M)
           /\ \A d \in pd : d.name \in DOMAIN M /\ d.value = M[d.name]

NoDuplicateKeys(tables) ==
    \A k \in Kinds : \A d, e \in tables[k] :
        (d.parent_id = e.parent_id /\ d.name = e.name) => d = e

\* The diff of a save, row by row: a row of the saved entity whose key is in
\* the mapping keeps its id and takes the mapping's value, a row whose key is
\* not in it is gone, a key without a row gets a new row, the rows of other
\* parents stay, and the rows of the entity are then exactly the mapping.
SaveDiffsExtensionRows ==
    [][ \A c \in Callers :
          (objs[c] # <<>> /\ ret'.op = "save_object" /\ save_object(objs[c][1], objs[c][1].kind)) =>
            LET o == objs[c][1]
                k == o.kind
                p == CHOOSE r \in rows'[k] : r.name = o.name
                old == ParentRows(data[k], p.id)
                new == ParentRows(data'[k], p.id)
            IN  /\ \A d \in old : d.name \in DOMAIN o.config
                        => [d EXCEPT !.value = o.config[d.name]] \in new
                /\ \A d \in old : d.name \notin DOMAIN o.config
                        => \A e \in new : e.id # d.id
                /\ \A key \in DOMAIN o.config : (\A d \in old : d.name # key)
                        => \E e \in new : /\ e.name = key
                                          /\ e.value = o.config[key]
                                          /\ e.id \notin Ids(data[k])
                /\ data'[k] \ new = data[k] \ old
                /\ Cardinality(new) = Cardinality(DOMAIN o.config)
                /\ \A j \in Kinds \ {k} : data'[j] = data[j]
      ]_vars

\* C1: in every kind, after save(config, kind) with the mapping M the side-table
\* rows of the saved entity are exactly M, and a get of that name right after
\* the save returns an object with the mapping M.
C1_SaveThenGetReturnsMapping ==
    [][ (ret.op = "save_object" /\ ret.exc = "None") =>
          /\ Persisted(ret.obj[1].kind, ret.obj[1].name, ret.obj[1].config)
          /\ \A c \in Callers :
                get_object(c, ret.obj[1].name, ret.obj[1].kind) =>
                   /\ ret'.exc = "None"
                   /\ ret'.val # <<>>
                   /\ ret'.val[1].config = ret.obj[1].config
      ]_vars

\* C2 as stated: in every kind, a get of the name right after a successful
\* create returns an object with the created name and type and an empty
\* mapping.
C2_CreateThenGet ==
    [][ (ret.op = "create_object" /\ ret.exc = "None") =>
          \A c \in Callers :
             get_object(c, ret.val[1].name, ret.val[1].kind) =>
                /\ ret'.exc = "None"
                /\ ret'.val # <<>>
                /\ ret'.val[1].name = ret.val[1].name
                /\ ret'.val[1].type = ret.val[1].type
                /\ ret'.val[1].config = EmptyMap
      ]_vars

\* C2 as amended: create persists nothing, so a get right after a successful
\* create fails with not found; after create and then save of the created
\* object the entity row has the created name and type and no extension row,
\* and a get right after returns, for a Provider, an object with that name,
\* that type and an empty mapping, and raises TypeError for a Controller or
\* a WorkerGroup.
C2_CreateSaveThenGet ==
    [][ /\ (ret.op = "create_object" /\ ret.exc = "None") =>
             \A c \in Callers :
                get_object(c, ret.val[1].name, ret.val[1].kind) =>
                   ret'.exc = "DatastoreException" /\ ret'.msg = "not found"
        /\ (ret.op = "save_object" /\ ret.exc = "None" /\ ret.chain = <<"create_object">>) =>
             LET o == ret.obj[1] IN
             /\ \E r \in rows[o.kind] :
                   /\ r.name = o.name
                   /\ r.type = o.type
                   /\ ParentRows(data[o.kind], r.id) = {}
             /\ \A c \in Callers :
                   get_object(c, o.name, o.kind) =>
                      IF o.kind = "Provider"
                      THEN /\ ret'.exc = "None"
                           /\ ret'.val # <<>>
                           /\ ret'.val[1].name = o.name
                           /\ ret'.val[1].type = o.type
                           /\ ret'.val[1].config = EmptyMap
                      ELSE ret'.exc = "TypeError"
      ]_vars

C2_Witness ==
    /\ ret.op = "get_object"
    /\ ret.exc = "None"
    /\ ret.chain = <<"create_object", "save_object">>
    /\ ret.val[1].config = EmptyMap

\* C3 as stated: a create, with a valid provider type, right after a
\* successful create of the same name and kind fails with already exists.
C3_SecondCreateFails ==
    [][ (ret.op = "create_object" /\ ret.exc = "None" /\ ret'.op = "create_object") =>
          \A c \in Callers, t \in PTypeInputs \cap VALID_PROVIDER_TYPES :
             \A kw \in KwargsFor(ret.val[1].kind) :
                create_object(c, t, ret.val[1].name, ret.val[1].kind, kw) =>
                   ret'.exc = "DatastoreException" /\ ret'.msg = "already exists"
      ]_vars

\* C3 as amended: create fails with already exists exactly when an entity
\* row of that kind with that name is stored, and then returns no object; a
\* create after a create that was not saved is not refused as a duplicate.
\* (Stated contrapositively: a step that does not answer so is not a create
\* of that kind and name.)
C3_CreateFailsIffStored ==
    [][ ret'.op = "create_object" =>
        \A n \in Names, k \in Kinds :
          LET stored == \E r \in rows[k] : r.name = n
              refused == ret'.exc = "DatastoreException" /\ ret'.msg = "already exists"
          IN  ~ ( /\ stored <=> refused
                  /\ stored => (ret'.val = <<>> /\ UNCHANGED <<rows, data, objs>>) )
              => \A c \in Callers, t \in PTypeInputs :
                    \A kw \in KwargsFor(k) : ~ create_object(c, t, n, k, kw)
      ]_vars

C3_Witness ==
    /\ ret.op = "create_object"
    /\ ret.exc = "DatastoreException"
    /\ ret.msg = "already exists"

\* C4: the second of two saves in a row of one unmodified object, in
\* particular of an object that get returned, leaves the entity rows and the
\* extension rows as the first save left them, with no two extension rows of
\* one parent and key.
C4_SecondSaveChangesNothing ==
    [][ \A c \in Callers :
          ( /\ objs[c] # <<>>
            /\ ret.op = "save_object"
            /\ ret'.op = "save_object"
            /\ ret.exc = "None"
            /\ ret.obj = objs[c]
            /\ save_object(objs[c][1], objs[c][1].kind) )
          => (UNCHANGED <<rows, data>> /\ NoDuplicateKeys(data'))
      ]_vars

C4_Witness ==
    /\ ret.op = "save_object"
    /\ ret.exc = "None"
    /\ ret.chain = <<"get_object", "save_object">>
    /\ ret.obj[1].id # Absent
    /\ ret.obj[1].config # EmptyMap
    /\ Persisted(ret.obj[1].kind, ret.obj[1].name, ret.obj[1].config)

\* A reference column of the row p of that kind holds an id, and no row of
\* the referenced kind has it.
DanglingRef(kind, p, col, target) ==
    /\ col \in Columns(kind)
    /\ p[col] # NULL
    /\ \A q \in rows[target] : q.id # p[col]

\* A reference column of the row p of that kind holds the id of a row of the
\* referenced kind.
LiveRef(kind, p, col, target) ==
    /\ col \in Columns(kind)
    /\ \E q \in rows[target] : q.id = p[col]

\* The step returned an object, without the back-references whose column
\* dangles in the row p.
ReturnsWithoutDangling(kind, p) ==
    /\ ret'.exc = "None"
    /\ ret'.val # <<>>
    /\ DanglingRef(kind, p, "provider_id", "Provider") => ret'.val[1].provider = <<>>
    /\ DanglingRef(kind, p, "controller_id", "Controller") => ret'.val[1].controller = <<>>

\* C5: a get or a get by id of a Controller or WorkerGroup row whose provider_id
\* or controller_id is the id of no row does not raise, and returns the object
\* with that back-reference absent.
C5_DanglingReferenceIsAbsent ==
    [][ ret'.op \in {"get_object", "get_object_by_id"} =>
        \A k \in {"Controller", "WorkerGroup"} : \A p \in rows[k] :
          (DanglingRef(k, p, "provider_id", "Provider")
              \/ DanglingRef(k, p, "controller_id", "Controller")) =>
            \A c \in Callers :
              /\ (ByName(k, p.name) = <<p>> /\ get_object(c, p.name, k))
                    => ReturnsWithoutDangling(k, p)
              /\ get_object_by_id(c, p.id, k) => ReturnsWithoutDangling(k, p)
      ]_vars

\* The step returned an object whose back-reference is the hydrated object
\* of the id in the column of the row p.
ReturnsWithRef(p, col, attr, target) ==
    /\ ret'.exc = "None"
    /\ ret'.val # <<>>
    /\ ret'.val[1][attr] # <<>>
    /\ ret'.val[1][attr][1].kind = target
    /\ ret'.val[1][attr][1].id = p[col]
    /\ \E q \in rows[target] :
          /\ q.id = p[col]
          /\ ret'.val[1][attr][1].name = q.name
          /\ ret'.val[1][attr][1].type = q.type

\* C6: a get of a stored Controller or WorkerGroup whose provider_id is the id
\* of a stored Provider returns an object whose provider is the hydrated object
\* of that id, and likewise for the controller_id and controller of a
\* WorkerGroup.
C6_GetAttachesBackReference ==
    [][ ret'.op = "get_object" =>
        \A k \in {"Controller", "WorkerGroup"} : \A p \in rows[k] : \A c \in Callers :
          (ByName(k, p.name) = <<p>> /\ get_object(c, p.name, k)) =>
             /\ LiveRef(k, p, "provider_id", "Provider")
                   => ReturnsWithRef(p, "provider_id", "provider", "Provider")
             /\ LiveRef(k, p, "controller_id", "Controller")
                   => ReturnsWithRef(p, "controller_id", "controller", "Controller")
      ]_vars

\* The entity rows of kind k after a save of o are those before it, with the
\* row new in place of the rows old, and the rows of the other kinds are as
\* before.
RowsAfterSave(k, old, new) ==
    /\ rows'[k] = (rows[k] \ old) \cup {new}
    /\ \A j \in Kinds \ {k} : rows'[j] = rows[j]

\* C7 as stated: a save of an object of a name no row of the kind has inserts
\* one new row, and a save of an object of a name a row has keeps that row,
\* with its id and with no second row, and sets its type and, where config
\* carries them, its provider_id and controller_id to those of config.
C7_SaveUpdatesTypeAndRefs ==
    [][ ret'.op = "save_object" =>
        \A c \in Callers :
          (objs[c] # <<>> /\ save_object(objs[c][1], objs[c][1].kind)) =>
            LET o == objs[c][1]
                k == o.kind
                old == { r \in rows[k] : r.name = o.name }
            IN  IF old = {}
                THEN \E r \in rows'[k] :
                        /\ r.id \notin Ids(rows[k])
                        /\ r.name = o.name
                        /\ RowsAfterSave(k, {}, r)
                ELSE \E q \in old : \E r \in rows'[k] :
                        /\ r.id = q.id
                        /\ r.name = q.name
                        /\ RowsAfterSave(k, {q}, r)
                        /\ r.type = o.type
                        /\ \A col \in Columns(k) : o[col] # Absent => r[col] = o[col]
      ]_vars

\* C7 as amended: a save of an object of a name no row of the kind has inserts
\* one new row with the name and type of config, and a save of an object of a
\* name a row has keeps that row, with its id, its name and its type even where
\* config has another type, and with no second row; either way the row's
\* provider_id and controller_id become those config carries, and are left as
\* they were (empty in a new row) where config carries none.
C7_SaveKeepsTypeUpdatesRefs ==
    [][ ret'.op = "save_object" =>
        \A c \in Callers :
          (objs[c] # <<>> /\ save_object(objs[c][1], objs[c][1].kind)) =>
            LET o == objs[c][1]
                k == o.kind
                old == { r \in rows[k] : r.name = o.name }
            IN  IF old = {}
                THEN \E r \in rows'[k] :
                        /\ r.id \notin Ids(rows[k])
                        /\ r.name = o.name
                        /\ r.type = o.type
                        /\ RowsAfterSave(k, {}, r)
                        /\ \A col \in {"provider_id", "controller_id"} :
                              r[col] = IF col \in Columns(k) /\ o[col] # Absent
                                       THEN o[col] ELSE NULL
                ELSE \E q \in old : \E r \in rows'[k] :
                        /\ r.id = q.id
                        /\ r.name = q.name
                        /\ r.type = q.type
                        /\ RowsAfterSave(k, {q}, r)
                        /\ \A col \in {"provider_id", "controller_id"} :
                              r[col] = IF col \in Columns(k) /\ o[col] # Absent
                                       THEN o[col] ELSE q[col]
      ]_vars

C7_Witness ==
    /\ ret.op = "save_object"
    /\ ret.exc = "None"
    /\ \E r \in rows[ret.obj[1].kind] :
          /\ r.name = ret.obj[1].name
          /\ r.type # ret.obj[1].type
          /\ "provider_id" \in Columns(ret.obj[1].kind)
          /\ r.provider_id = ret.obj[1].provider_id

\* The step failed with not found and left the store as it was.
NotFoundAndUnchanged ==
    /\ ret'.exc = "DatastoreException"
    /\ ret'.msg = "not found"
    /\ UNCHANGED <<rows, data, inst>>

\* C8: a get and a delete of a name no row of the kind has, and a delete by id
\* of an id no row of the kind has, fail with not found and leave the entity
\* rows, the extension rows and the instance rows as they were.
C8_MissingRowNotFound ==
    [][ ret'.op \in {"get_object", "delete_object", "delete_object_by_id"} =>
        \A k \in Kinds :
          /\ \A n \in Names : (\A r \in rows[k] : r.name # n) =>
                /\ \A c \in Callers : get_object(c, n, k) => NotFoundAndUnchanged
                /\ delete_object(n, k) => NotFoundAndUnchanged
          /\ \A i \in IdInputs : (\A r \in rows[k] : r.id # i) =>
                (delete_object_by_id(i, k) => NotFoundAndUnchanged)
      ]_vars

C8_Witness ==
    /\ ret.op = "delete_object_by_id"
    /\ ret.exc = "DatastoreException"
    /\ ret.msg = "not found"
    /\ \E k \in Kinds : rows[k] # {}

\* The ids the state shows to have been issued for the table of that kind:
\* those of its rows, those its extension rows name as parent, and those of
\* the objects of the kind that a get returned to a caller.
IssuedIds(kind) ==
    Ids(rows[kind])
      \cup { d.parent_id : d \in data[kind] }
      \cup { objs[c][1].id : c \in { b \in Callers : /\ objs[b] # <<>>
                                                     /\ objs[b][1].kind = kind
                                                     /\ objs[b][1].id # Absent } }

\* C9: a row inserted into an entity table gets an id greater than every id
\* issued for that table before, so also greater than the id of a row that
\* was deleted.
C9_InsertedIdIsFresh ==
    [][ \A k \in Kinds : \A r \in rows'[k] :
          r.id \notin Ids(rows[k]) => \A i \in IssuedIds(k) : i < r.id
      ]_vars

\* C10: no two instance rows have one provider_instance_identifier, and a
\* get_instance of an identifier that a row has returns that row and leaves
\* the instance rows as they were, whatever ip_address, provider_id,
\* controller_id and worker_group_id the call passes.
C10_GetInstanceIdempotent ==
    [][ /\ \A r, q \in inst' :
              r.provider_instance_identifier = q.provider_instance_identifier => r = q
        /\ ret'.op = "get_instance" =>
             \A p \in inst : \A ip \in IpAddresses : \A pid, cid, wid \in InstRefs :
                get_instance(p.provider_instance_identifier, ip, pid, cid, wid) =>
                   /\ inst' = inst
                   /\ ret'.val = <<p>>
      ]_vars

C10_Witness ==
    /\ ret.op = "get_instance"
    /\ ret.val[1] \in inst
    /\ ret.val[1].ip_address # ret.obj[1].ip_address
    /\ ret.val[1].provider_id # ret.obj[1].provider_id
    /\ ret.val[1].controller_id # ret.obj[1].controller_id
    /\ ret.val[1].worker_group_id # ret.obj[1].worker_group_id

\* C11: for every controller_id c, get_controller_instances(c) returns
\* exactly the instances of controller c without a worker group,
\* get_worker_instances(c) exactly those of controller c with one; no instance
\* is in both, and together they are the instances of controller c.
C11_InstancePartition ==
    [][ \A c \in InstRefs :
          /\ (ret'.op = "get_controller_instances" /\ get_controller_instances(c)) =>
                /\ ret'.exc = "None"
                /\ \A r \in inst :
                      r \in ret'.val[1].all <=> (r.controller_id = c /\ r.worker_group_id = NULL)
                /\ ret'.val[1].all \subseteq inst
                /\ ret'.val[1].all \cap WorkerInstances(c) = {}
                /\ ret'.val[1].all \cup WorkerInstances(c) = { r \in inst : r.controller_id = c }
          /\ (ret'.op = "get_worker_instances" /\ get_worker_instances(c)) =>
                /\ ret'.exc = "None"
                /\ \A r \in inst :
                      r \in ret'.val[1].all <=> (r.controller_id = c /\ r.worker_group_id # NULL)
                /\ ret'.val[1].all \subseteq inst
                /\ ret'.val[1].all \cap ControllerInstances(c) = {}
                /\ ret'.val[1].all \cup ControllerInstances(c) = { r \in inst : r.controller_id = c }
      ]_vars

C11_Witness ==
    /\ ret.op = "get_controller_instances"
    /\ ret.obj[1].controller_id # NULL
    /\ Cardinality(ret.val[1].all) = 1
    /\ Cardinality(WorkerInstances(ret.obj[1].controller_id)) = 1

\* The step removed the entity row p of kind k and nothing else, and a get
\* of its name in the state reached fails with not found.
RemovedOnly(k, p) ==
    /\ ret'.exc = "None"
    /\ p \in rows[k]
    /\ rows'[k] = rows[k] \ {p}
    /\ \A j \in Kinds \ {k} : rows'[j] = rows[j]
    /\ data' = data
    /\ \A d \in data[k] : d.parent_id = p.id => d \in data'[k]
    /\ inst' = inst
    /\ get_object_result(p.name, k)' = Raise(DatastoreException("not found"))

C16_NameUniquePerKind ==
    \A k \in Kinds : \A r, q \in rows[k] : r.name = q.name => r = q

C16_Witness ==
    /\ ret.op = "save_object"
    /\ ret.exc = "None"
    /\ objs["A"] # <<>> /\ objs["B"] # <<>>
    /\ objs["A"][1].kind = objs["B"][1].kind
    /\ objs["A"][1].name = objs["B"][1].name
    /\ objs["A"][1].type # objs["B"][1].type
    /\ \E r \in rows[objs["A"][1].kind] :
          /\ r.name = objs["A"][1].name
          /\ r.type # ret.obj[1].type
    /\ \E j \in Kinds \ {objs["A"][1].kind} :
          \E q \in rows[j] : q.name = objs["A"][1].name

\* C17: no two rows of one side-table have the same parent_id and the same
\* name.
C17_ExtensionRowsFormMapping ==
    \A k \in Kinds : \A d, e \in data[k] :
        (d.parent_id = e.parent_id /\ d.name = e.name) => d.id = e.id

C17_Witness ==
    /\ ret.op = "save_object"
    /\ ret.exc = "None"
    /\ ret.obj[1].config # EmptyMap
    /\ Persisted(ret.obj[1].kind, ret.obj[1].name, ret.obj[1].config)
    /\ \E d \in data[ret.obj[1].kind] :
          /\ d.id > 1
          /\ d.parent_id \in Ids(rows[ret.obj[1].kind])
    /\ \E k \in Kinds : \E d \in data[k] : d.parent_id \notin Ids(rows[k])

\* The step failed with the datastore error and returned nothing.
FailsWithoutHandler ==
    /\ ret'.exc = "DatastoreException"
    /\ ret'.val = <<>>

HostStored(tables, host_id) == \E r \in tables["RemoteHost"] : r.remote_host_id = host_id

\* C13: saving a RemoteJob succeeds; afterwards the store has the row of the
\* job and a RemoteHost row of the host the job references, and a copy of the
\* host was inserted exactly if the store had no row of that host before.
C13_SaveRemoteJobStoresJobAndHost ==
    [][ \A job \in JobConfigs :
          (ret'.op = "save_object" /\ save_object(job, "RemoteJob"))
          => /\ ret'.exc = "None"
             /\ \E j \in remote'["RemoteJob"] : j.remote_job_id = job.id
             /\ HostStored(remote', job.remote_host.id)
             /\ (remote'["RemoteHost"] # remote["RemoteHost"])
                   <=> ~HostStored(remote, job.remote_host.id) ]_vars

\* C15: a call of get_container_ip_address that found the container without
\* an address returns once the container has an address that starts with
\* "1": from then on the call eventually returns.
C15_PollingReturnsAddress ==
    (docker.pc # "idle" /\ docker.ins = NoAddress /\ StartsWith(docker.ip[docker.cid], "1"))
        ~> (docker.pc = "idle")

\* The calls of the log that remove a container.
Removes(log) == SelectSeq(log, LAMBDA e : e.call = "remove")

===========================================================================
